---- MODULE Spec2Model ----
(***************************************************************************)
(* Model of the metrics engine of the FDCR portfolio dashboard             *)
(* (src/app.py): process_kpi_data (grouping, sums, cost ratios) and the    *)
(* per-domain performance scores of create_domain_performance_chart.       *)
(*                                                                         *)
(* Numbers are float64 cells of a DataFrame.  They are modelled as exact   *)
(* fractions n/d in lowest terms; d = 0 encodes the non-finite values:     *)
(* 0/0 is NaN (also pandas' missing value), 1/0 is +inf, -1/0 is -inf.     *)
(* Rounding error is not modelled.                                         *)
(***************************************************************************)
EXTENDS Integers, Sequences, FiniteSets, TLC

VARIABLES df, df0, called, level, kpi_df, groups, domain_metrics, raised, history,
          session_state, most_efficient, st_error

\* What a run of main leaves: st.session_state, the "Most Efficient" metric
\* cards it drew, and the st.error message it ended with.
main_vars == <<session_state, most_efficient, st_error>>

vars == <<df, df0, called, level, kpi_df, groups, domain_metrics, raised, history,
          main_vars>>

(***************************************************************************)
(* Bounds of the model.                                                    *)
(***************************************************************************)
MaxRecords == 2
MaxBudget == 2
MaxCount == 1
MaxCalls == 3

(***************************************************************************)
(* float64 arithmetic.                                                     *)
(***************************************************************************)
Abs(i) == IF i < 0 THEN -i ELSE i

Sign(i) == IF i < 0 THEN -1 ELSE IF i > 0 THEN 1 ELSE 0

RECURSIVE GCD(_, _)
GCD(a, b) == IF b = 0 THEN a ELSE GCD(b, a % b)

Rat(n, d) ==
    IF d = 0 THEN [n |-> Sign(n), d |-> 0]
    ELSE LET g == GCD(Abs(n), Abs(d))
         IN  [n |-> (Sign(d) * n) \div g, d |-> Abs(d) \div g]

Num(i) == [n |-> i, d |-> 1]

NaN == [n |-> 0, d |-> 0]

IsNaN(x) == x.n = 0 /\ x.d = 0

RAdd(x, y) == Rat(x.n * y.d + y.n * x.d, x.d * y.d)

RMul(x, y) == Rat(x.n * y.n, x.d * y.d)

RDiv(x, y) == Rat(x.n * y.d, x.d * y.n)

\* x > y on floats: FALSE as soon as one side is NaN.
RGt(x, y) == /\ ~IsNaN(x)
             /\ ~IsNaN(y)
             /\ x.n * y.d > y.n * x.d

\* pandas' sum skips missing values (skipna=True).
SkipNa(x) == IF IsNaN(x) THEN Num(0) ELSE x

(***************************************************************************)
(* The record source: names, and the record collections a call is given.   *)
(***************************************************************************)
None == "None"

Domains == {"AI", "Energy"}

Programmes == {"NLP", "Solar"}

\* The names in lexicographic order, which is how pandas sorts group keys;
\* a missing key sorts last.
NamesSorted == <<"AI", "Energy", "NLP", "Solar", None>>

Rank(s) == CHOOSE i \in 1..Len(NamesSorted) : NamesSorted[i] = s

ProjectNames == <<"P1", "P2", "P3", "P4", "P5", "P6">>

kpi_columns == <<"journal_articles", "conference_papers", "book_chapters",
                 "technology_demonstrators">>

Levels == {"domain", "programme", "project"}

OtherLevels == {"portfolio"}

\* Budgets and output counts of a record: none, some, the largest.
Budgets == {Num(0), Num(1), Num(MaxBudget)}

Counts == {Num(0), Num(MaxCount)}

\* Rows of the query result of get_project_info, without the project name.
Rows(D, P, S, B, J, C, K, T) ==
    [domain : D, programme : P, status : S, total_budget : B,
     journal_articles : J, conference_papers : C, book_chapters : K,
     technology_demonstrators : T]

\* DataFrames of at most MaxRecords rows drawn from R; row i is project i.
Frames(R) ==
    { [i \in 1..Len(f) |-> f[i] @@ [project_name |-> ProjectNames[i]]] :
        f \in UNION { [1..n -> R] : n \in 0..MaxRecords } }

\* Aggregation inputs: every combination of present and missing group keys.
AggFrames ==
    Frames(Rows(Domains \cup {None}, Programmes \cup {None}, {1},
                Budgets \ {Num(0)}, {Num(1)}, {Num(0)}, {Num(0)}, {Num(0)}))

\* Metric vectors with at most one non-zero metric per record.
OneMetricRows(D, P, S, B) ==
    { r \in Rows(D, P, S, B, Counts, Counts, Counts, Counts) :
        Cardinality({c \in 1..Len(kpi_columns) : r[kpi_columns[c]] # Num(0)}) <= 1 }

\* Efficiency inputs: one group, every budget against every metric pattern.
EffFrames == Frames(OneMetricRows({"AI"}, {"NLP"}, {1}, Budgets))

\* Inputs of repeated calls.
RepeatFrames ==
    Frames(Rows(Domains, {"NLP"}, {1}, Budgets \ {Num(0)},
                {Num(1)}, {Num(0)}, {Num(0)}, {Num(0)}))

\* Scoring inputs: two domains, active and inactive projects, zero and
\* non-zero budgets and outputs.
ScoreFrames ==
    Frames(Rows(Domains, {"NLP"}, {0, 1}, {Num(0), Num(MaxBudget)},
                Counts, {Num(0)}, {Num(0)}, {Num(0)}))

\* What the query of get_project_info may return in a session: no record,
\* or projects of one or two domains with and without output.
MainFrames ==
    Frames(Rows(Domains, {"NLP"}, {1}, {Num(1), Num(MaxBudget)},
                Counts, {Num(0)}, {Num(0)}, {Num(0)}))

\* Inputs with missing cells: a null total_budget or journal_articles.
MissingFrames ==
    Frames(Rows({"AI"}, {"NLP"}, {1}, {NaN, Num(0), Num(MaxBudget)},
                {NaN, Num(0), Num(MaxCount)}, {Num(0)}, {Num(0)}, {Num(0)}))

\* Inputs of the scorer's output shape: present and missing domains, active
\* and inactive projects.
ShapeFrames ==
    Frames(Rows(Domains \cup {None}, {"NLP"}, {0, 1}, {Num(MaxBudget)},
                {Num(MaxCount)}, {Num(0)}, {Num(0)}, {Num(0)}))

(***************************************************************************)
(* process_kpi_data                                                        *)
(***************************************************************************)
KeyOf(r, by) == [k \in 1..Len(by) |-> r[by[k]]]

\* groupby(..., dropna=True): a row with a missing key is in no group.
HasKey(r, by) == \A k \in 1..Len(by) : r[by[k]] # None

KeyLt(a, b) ==
    \E k \in 1..Len(a) :
        /\ Rank(a[k]) < Rank(b[k])
        /\ \A j \in 1..(k - 1) : a[j] = b[j]

RECURSIVE SortKeys(_)
SortKeys(K) ==
    IF K = {} THEN <<>>
    ELSE LET m == CHOOSE a \in K : \A b \in K \ {a} : KeyLt(a, b)
         IN  <<m>> \o SortKeys(K \ {m})

\* Keys in the order they are first met in the frame.
RECURSIVE FirstSeenKeys(_, _, _)
FirstSeenKeys(frame, by, i) ==
    IF i > Len(frame) THEN <<>>
    ELSE LET k == KeyOf(frame[i], by)
             fresh == /\ HasKey(frame[i], by)
                      /\ \A j \in 1..(i - 1) : KeyOf(frame[j], by) # k
         IN  (IF fresh THEN <<k>> ELSE <<>>) \o FirstSeenKeys(frame, by, i + 1)

\* Fault variant: groupby(by, sort=False).
GroupKeysUnsorted(frame, by) == FirstSeenKeys(frame, by, 1)

\* Fault variant: groupby(by, dropna=False).
GroupKeysKeepNa(frame, by) ==
    SortKeys({ KeyOf(frame[i], by) : i \in 1..Len(frame) })

\* groupby(by) with its defaults sort=True, dropna=True: the distinct keys
\* without missing parts, ascending.
GroupKeys(frame, by) ==
    SortKeys({ KeyOf(frame[i], by) : i \in {j \in 1..Len(frame) : HasKey(frame[j], by)} })

\* Fault variant: rows matched on the last group-by column alone.
MembersByLastKey(frame, by, key) ==
    { i \in 1..Len(frame) : frame[i][by[Len(by)]] = key[Len(key)] }

\* The rows of one group.
Members(frame, by, key) ==
    { i \in 1..Len(frame) : KeyOf(frame[i], by) = key }

\* Series.sum() over the rows S of a column.
RECURSIVE SumCol(_, _, _)
SumCol(frame, col, S) ==
    IF S = {} THEN Num(0)
    ELSE LET i == CHOOSE x \in S : TRUE
         IN  RAdd(SkipNa(frame[i][col]), SumCol(frame, col, S \ {i}))

\* Fault variant: .agg({... : 'first'}).
AggFirst(frame, S) ==
    LET i == CHOOSE x \in S : \A y \in S : x <= y
    IN  [total_budget |-> frame[i].total_budget,
         journal_articles |-> frame[i].journal_articles,
         conference_papers |-> frame[i].conference_papers,
         book_chapters |-> frame[i].book_chapters,
         technology_demonstrators |-> frame[i].technology_demonstrators]

\* .agg({... : 'sum'}) for one group.
AggSums(frame, S) ==
    [total_budget |-> SumCol(frame, "total_budget", S),
     journal_articles |-> SumCol(frame, "journal_articles", S),
     conference_papers |-> SumCol(frame, "conference_papers", S),
     book_chapters |-> SumCol(frame, "book_chapters", S),
     technology_demonstrators |-> SumCol(frame, "technology_demonstrators", S)]

\* The project level: the six columns of a row, project_name renamed to name.
ProjectRow(r) ==
    [name |-> r.project_name,
     total_budget |-> r.total_budget,
     journal_articles |-> r.journal_articles,
     conference_papers |-> r.conference_papers,
     book_chapters |-> r.book_chapters,
     technology_demonstrators |-> r.technology_demonstrators]

\* Fault variant: a level that is none of the three falls back to the domain level.
GroupByDefaultDomain(lvl) ==
    IF lvl = "programme" THEN <<"domain", "programme">>
    ELSE IF lvl = "project" THEN <<>>
    ELSE <<"domain">>

\* The group-by columns of a level; <<>> is the else branch (no grouping).
GroupBy(lvl) ==
    IF lvl = "domain" THEN <<"domain">>
    ELSE IF lvl = "programme" THEN <<"domain", "programme">>
    ELSE <<>>

\* The row sets behind the rows of grouped, in output order.
Grouper(frame, lvl) ==
    LET by == GroupBy(lvl)
    IN  IF by = <<>> THEN [i \in 1..Len(frame) |-> {i}]
        ELSE LET keys == GroupKeys(frame, by)
             IN  [g \in 1..Len(keys) |-> Members(frame, by, keys[g])]

\* grouped before the cost columns are added.
Grouped(frame, lvl) ==
    LET by == GroupBy(lvl)
    IN  IF by = <<>> THEN [i \in 1..Len(frame) |-> ProjectRow(frame[i])]
        ELSE LET keys == GroupKeys(frame, by)
             IN  [g \in 1..Len(keys) |->
                    LET key == keys[g]
                        sums == AggSums(frame, Members(frame, by, key))
                    IN  IF lvl = "domain"
                        THEN [name |-> key[1]] @@ sums
                        ELSE [domain |-> key[1], name |-> key[2]] @@ sums]

\* Fault variant: the division without its guard.
KpiCostUnguarded(budget, kpi) == RDiv(budget, kpi)

\* x['total_budget'] / x[kpi] if x[kpi] > 0 else 0
KpiCost(budget, kpi) ==
    IF RGt(kpi, Num(0)) THEN RDiv(budget, kpi) ELSE Num(0)

\* grouped[kpi_columns].sum(axis=1)
TotalKpis(row) ==
    RAdd(RAdd(SkipNa(row.journal_articles), SkipNa(row.conference_papers)),
         RAdd(SkipNa(row.book_chapters), SkipNa(row.technology_demonstrators)))

WithCosts(row) ==
    row @@
    [journal_articles_cost |-> KpiCost(row.total_budget, row.journal_articles),
     conference_papers_cost |-> KpiCost(row.total_budget, row.conference_papers),
     book_chapters_cost |-> KpiCost(row.total_budget, row.book_chapters),
     technology_demonstrators_cost |->
        KpiCost(row.total_budget, row.technology_demonstrators),
     total_kpis |-> TotalKpis(row),
     cost_per_kpi |-> KpiCost(row.total_budget, TotalKpis(row))]

\* The value process_kpi_data(frame, lvl) returns.
process_kpi_data(frame, lvl) ==
    LET grouped == Grouped(frame, lvl)
    IN  [g \in 1..Len(grouped) |-> WithCosts(grouped[g])]

\* Fault variant: at the project level grouped is the caller's frame itself,
\* so the cost columns are written into it.
ArgumentWrittenThrough(frame, lvl) ==
    IF GroupBy(lvl) = <<>>
    THEN [i \in 1..Len(frame) |-> frame[i] @@ WithCosts(ProjectRow(frame[i]))]
    ELSE frame

\* The caller's frame after the call: groupby/agg and df[[...]] build new
\* frames, and the cost columns are assigned to those.
ArgumentAfter(frame, lvl) == frame

ProcessKpiData(lvl) ==
    /\ kpi_df' = process_kpi_data(df, lvl)
    /\ groups' = Grouper(df, lvl)
    /\ df' = ArgumentAfter(df, lvl)
    /\ level' = lvl
    /\ called' = "process_kpi_data"
    /\ domain_metrics' = <<>>
    /\ raised' = "none"
    /\ UNCHANGED df0

(***************************************************************************)
(* create_domain_performance_chart: the per-domain scores                  *)
(***************************************************************************)
\* Fault variant: the distinct values in ascending order.
UniqueSorted(frame, col, i) ==
    LET sorted == SortKeys({ <<frame[j][col]>> : j \in i..Len(frame) })
    IN  [k \in 1..Len(sorted) |-> sorted[k][1]]

\* df['domain'].unique(): the distinct values, a missing one included, in
\* the order they are first met.
RECURSIVE Unique(_, _, _)
Unique(frame, col, i) ==
    IF i > Len(frame) THEN <<>>
    ELSE (IF \A j \in 1..(i - 1) : frame[j][col] # frame[i][col]
          THEN <<frame[i][col]>> ELSE <<>>) \o Unique(frame, col, i + 1)

\* df[df['domain'] == domain]: comparing with a missing value selects no row.
DomainData(frame, domain) ==
    { i \in 1..Len(frame) : domain # None /\ frame[i].domain = domain }

AllRows(frame) == 1..Len(frame)

\* The sum of the four output columns over the rows S.
ResearchOutput(frame, S) ==
    RAdd(RAdd(SumCol(frame, "journal_articles", S),
              SumCol(frame, "conference_papers", S)),
         RAdd(SumCol(frame, "book_chapters", S),
              SumCol(frame, "technology_demonstrators", S)))

budget_weight == Rat(3, 10)

activity_weight == Rat(3, 10)

output_weight == Rat(4, 10)

\* total_budget / df['total_budget'].sum() * 100
BudgetScore(total_budget, all_budget) ==
    RMul(RDiv(total_budget, all_budget), Num(100))

\* (active_projects / total_projects * 100) if total_projects > 0 else 0
ActivityScore(active_projects, total_projects) ==
    IF total_projects > 0
    THEN RMul(Rat(active_projects, total_projects), Num(100))
    ELSE Num(0)

\* Fault variant: the ratio without its short-circuit.
OutputScoreUnguarded(research_output, all_output) ==
    RMul(RDiv(research_output, all_output), Num(100))

\* (research_output / <all output> * 100) if research_output > 0 else 0
OutputScore(research_output, all_output) ==
    IF RGt(research_output, Num(0))
    THEN RMul(RDiv(research_output, all_output), Num(100))
    ELSE Num(0)

\* Fault variant: output_score weighted 0.3.
PerformanceScoreEqualWeights(budget_score, activity_score, output_score) ==
    RAdd(RAdd(RMul(budget_score, budget_weight),
              RMul(activity_score, activity_weight)),
         RMul(output_score, activity_weight))

\* budget_score * budget_weight + activity_score * activity_weight +
\* output_score * output_weight
PerformanceScore(budget_score, activity_score, output_score) ==
    RAdd(RAdd(RMul(budget_score, budget_weight),
              RMul(activity_score, activity_weight)),
         RMul(output_score, output_weight))

DomainMetric(frame, domain) ==
    LET domain_data == DomainData(frame, domain)
        total_budget == SumCol(frame, "total_budget", domain_data)
        active_projects ==
            Cardinality({i \in domain_data : frame[i].status = 1})
        total_projects == Cardinality(domain_data)
        research_output == ResearchOutput(frame, domain_data)
        budget_score ==
            BudgetScore(total_budget, SumCol(frame, "total_budget", AllRows(frame)))
        activity_score == ActivityScore(active_projects, total_projects)
        output_score ==
            OutputScore(research_output, ResearchOutput(frame, AllRows(frame)))
    IN  [domain |-> domain,
         performance_score |->
            PerformanceScore(budget_score, activity_score, output_score),
         budget_score |-> budget_score,
         activity_score |-> activity_score,
         output_score |-> output_score]

\* The list domain_metrics the chart is drawn from.
DomainMetrics(frame) ==
    LET domains == Unique(frame, "domain", 1)
    IN  [k \in 1..Len(domains) |-> DomainMetric(frame, domains[k])]

CreateDomainPerformanceChart ==
    /\ domain_metrics' = DomainMetrics(df)
    /\ called' = "create_domain_performance_chart"
    /\ level' = "none"
    /\ kpi_df' = <<>>
    /\ groups' = <<>>
    /\ raised' = "none"
    /\ UNCHANGED <<df, df0>>

(***************************************************************************)
(* main: one run of the script per action                                  *)
(***************************************************************************)
\* st.session_state without any key.
NoSession == [k \in {} |-> <<>>]

\* The choices of the "Select Domain" box over all sessions.
DomainFilters == {"All"} \cup Domains

\* filtered_df[filtered_df['domain'] == domain_filter]
FilterDomain(frame, domain_filter) ==
    SelectSeq(frame, LAMBDA r : r.domain = domain_filter)

\* Fault variant: the minimum taken over all rows.
EfficientRowsUnfiltered(kpi) == 1..Len(kpi)

\* kpi_df[kpi_df['cost_per_kpi'] > 0], as row numbers of kpi_df
EfficientRows(kpi) ==
    { g \in 1..Len(kpi) : RGt(kpi[g].cost_per_kpi, Num(0)) }

\* efficient_df['cost_per_kpi'].idxmin(): the first row with the least value.
IdxMin(kpi, S) ==
    CHOOSE g \in S :
        \A h \in S \ {g} :
            \/ RGt(kpi[h].cost_per_kpi, kpi[g].cost_per_kpi)
            \/ kpi[h].cost_per_kpi = kpi[g].cost_per_kpi /\ g < h

\* The "Most Efficient <level>" and "Best Cost per KPI" cards: none when
\* efficient_df is empty.
MostEfficient(kpi) ==
    LET efficient_df == EfficientRows(kpi)
    IN  IF efficient_df = {} THEN <<>>
        ELSE LET row == kpi[IdxMin(kpi, efficient_df)]
             IN  <<[name |-> row.name, cost_per_kpi |-> row.cost_per_kpi]>>

\* A run that returns before any view is drawn.
EndEarly(state, message, exception) ==
    /\ session_state' = state
    /\ st_error' = message
    /\ raised' = exception
    /\ called' = "none"
    /\ level' = "none"
    /\ df' = <<>>
    /\ df0' = <<>>
    /\ kpi_df' = <<>>
    /\ groups' = <<>>
    /\ domain_metrics' = <<>>
    /\ most_efficient' = <<>>
    /\ UNCHANGED history

\* The run from the domain filter on, with st.session_state as the
\* initialisation block left it.
Render(state, domain_filter, kpi_level) ==
    IF "df" \notin DOMAIN state
    THEN \* st.session_state.df is not set
         EndEarly(state, "none", "AttributeError")
    ELSE /\ domain_filter \in {"All"} \cup { state.df[i].domain : i \in 1..Len(state.df) }
         /\ session_state' = state
         /\ st_error' = "none"
         /\ raised' = "none"
         /\ UNCHANGED history
         /\ IF domain_filter = "All"
            THEN \* the overview
                 /\ df' = state.df
                 /\ df0' = state.df
                 /\ domain_metrics' = DomainMetrics(state.df)
                 /\ called' = "create_domain_performance_chart"
                 /\ level' = "none"
                 /\ kpi_df' = <<>>
                 /\ groups' = <<>>
                 /\ most_efficient' = <<>>
            ELSE \* the domain view
                 LET filtered_df == FilterDomain(state.df, domain_filter)
                 IN  /\ df0' = filtered_df
                     /\ df' = ArgumentAfter(filtered_df, kpi_level)
                     /\ kpi_df' = process_kpi_data(filtered_df, kpi_level)
                     /\ groups' = Grouper(filtered_df, kpi_level)
                     /\ most_efficient' = MostEfficient(kpi_df')
                     /\ called' = "process_kpi_data"
                     /\ level' = kpi_level
                     /\ domain_metrics' = <<>>

\* A first run whose connect_to_neo4j returns no driver.
CouldNotConnect ==
    /\ "project_info" \notin DOMAIN session_state
    /\ EndEarly(session_state, "Could not connect to database", "none")

\* A first run with a driver: get_project_info returns project_info (the
\* empty list too when the query fails).
FetchAndRender(project_info, domain_filter, kpi_level) ==
    /\ "project_info" \notin DOMAIN session_state
    /\ LET fetched == ("project_info" :> project_info) @@ session_state
       IN  IF project_info # <<>>
           THEN Render(("df" :> project_info) @@ fetched, domain_filter, kpi_level)
           ELSE EndEarly(fetched, "No project data available", "none")

\* A run that finds project_info in st.session_state and skips the
\* initialisation block.
Rerun(domain_filter, kpi_level) ==
    /\ "project_info" \in DOMAIN session_state
    /\ Render(session_state, domain_filter, kpi_level)

(***************************************************************************)
(* Specifications: one per family of inputs.                               *)
(***************************************************************************)
Start(frames) ==
    /\ df \in frames
    /\ df0 = df
    /\ called = "none"
    /\ level = "none"
    /\ kpi_df = <<>>
    /\ groups = <<>>
    /\ domain_metrics = <<>>
    /\ raised = "none"
    /\ history = <<>>
    /\ session_state = NoSession
    /\ most_efficient = <<>>
    /\ st_error = "none"

Init == Start(AggFrames)

InitEff == Start(EffFrames)

InitScore == Start(ScoreFrames)

InitRepeat == Start(RepeatFrames)

InitMissing == Start(MissingFrames)

InitShape == Start(ShapeFrames)

\* A new session: nothing fetched, nothing handed to the engine yet.
InitMain == Start({<<>>})

Next ==
    \/ \E lvl \in Levels \cup OtherLevels :
          ProcessKpiData(lvl) /\ UNCHANGED <<history, main_vars>>
    \/ CreateDomainPerformanceChart /\ UNCHANGED <<history, main_vars>>

\* The same calls, each call of process_kpi_data and what it returned
\* written down by the caller (at most MaxCalls of them).
NextRepeat ==
    \/ \E lvl \in Levels \cup OtherLevels :
          /\ Len(history) < MaxCalls
          /\ ProcessKpiData(lvl)
          /\ history' = Append(history, [level |-> lvl, returned |-> kpi_df'])
          /\ UNCHANGED main_vars
    \/ CreateDomainPerformanceChart /\ UNCHANGED <<history, main_vars>>

\* The runs of main within one session.
NextMain ==
    \/ CouldNotConnect
    \/ \E project_info \in MainFrames, domain_filter \in DomainFilters,
          kpi_level \in Levels :
          FetchAndRender(project_info, domain_filter, kpi_level)
    \/ \E domain_filter \in DomainFilters, kpi_level \in Levels :
          Rerun(domain_filter, kpi_level)

Spec == Init /\ [][Next]_vars

SpecEff == InitEff /\ [][Next]_vars

SpecScore == InitScore /\ [][Next]_vars

SpecRepeat == InitRepeat /\ [][NextRepeat]_vars

SpecMissing == InitMissing /\ [][Next]_vars

SpecShape == InitShape /\ [][Next]_vars

SpecMain == InitMain /\ [][NextMain]_vars

(***************************************************************************)
(* Properties                                                              *)
(***************************************************************************)
Returned == called = "process_kpi_data"

Scored == called = "create_domain_performance_chart"

\* The sum of total_budget over the returned rollups.
RollupBudget == SumCol(kpi_df, "total_budget", AllRows(kpi_df))

\* The rows of df whose group keys at the requested level are all present.
Keyed ==
    { i \in 1..Len(df) :
        /\ level \in {"domain", "programme"} => df[i].domain # None
        /\ level = "programme" => df[i].programme # None }

\* C1 as stated: at each of the three levels the rollups' total_budget adds
\* up to the total_budget of the input records with a non-null domain.
C1_SumOverNonNullDomain ==
    (Returned /\ level \in Levels) =>
        RollupBudget =
            SumCol(df, "total_budget", {i \in 1..Len(df) : df[i].domain # None})

\* C1 amended: the rollups' total_budget adds up to the total_budget of the
\* input records that have a non-null domain at the domain level, a non-null
\* domain and a non-null programme at the programme level, and of all input
\* records at the project level.
C1_SumInvariant ==
    Returned => RollupBudget = SumCol(df, "total_budget", Keyed)

C1_Witness ==
    /\ Returned
    /\ level = "programme"
    /\ Len(kpi_df) = 1
    /\ \E i \in 1..Len(df) : df[i].domain # None /\ df[i].programme = None
    /\ RGt(SumCol(df, "total_budget", {i \in 1..Len(df) : df[i].domain # None}),
           RollupBudget)

\* The number of groups row i of df contributes to.
GroupsOf(i) == Cardinality({g \in 1..Len(groups) : i \in groups[g]})

\* C2 as stated: at the domain and programme levels every input record
\* contributes to exactly one group, and a domain group has as many
\* contributing records as there are input records with that domain.
C2_EveryRecordInOneGroup ==
    (Returned /\ level \in {"domain", "programme"}) =>
        /\ \A i \in 1..Len(df) : GroupsOf(i) = 1
        /\ level = "domain" =>
             \A g \in 1..Len(groups) :
                Cardinality(groups[g]) =
                    Cardinality({i \in 1..Len(df) : df[i].domain = kpi_df[g].name})

\* C2 amended: at the domain and programme levels an input record whose
\* group keys are non-null contributes to exactly one group and a record
\* with a null key to none; a domain group has as many contributing records
\* as there are input records with that domain.
C2_Partition ==
    (Returned /\ level \in {"domain", "programme"}) =>
        /\ Len(groups) = Len(kpi_df)
        /\ \A i \in 1..Len(df) : GroupsOf(i) = (IF i \in Keyed THEN 1 ELSE 0)
        /\ level = "domain" =>
             \A g \in 1..Len(groups) :
                Cardinality(groups[g]) =
                    Cardinality({i \in 1..Len(df) : df[i].domain = kpi_df[g].name})

C2_Witness ==
    /\ Returned
    /\ level = "domain"
    /\ Len(df) = 2
    /\ df[1].domain = None
    /\ df[2].domain = "AI"
    /\ groups = <<{2}>>

\* cost = total_budget / denominator, all three finite.
IsQuotient(cost, total_budget, denominator) ==
    /\ cost.d > 0
    /\ cost.n * denominator.n * total_budget.d
         = total_budget.n * denominator.d * cost.d

ZeroDenominatorPolicy(cost, total_budget, denominator) ==
    /\ RGt(denominator, Num(0)) => IsQuotient(cost, total_budget, denominator)
    /\ denominator = Num(0) => cost = Num(0)

\* C3: in every rollup total_kpis is the sum of the four metric sums, and
\* each of the five cost ratios is total_budget over its denominator when
\* the denominator is positive and 0 when the denominator is 0.
C3_ZeroDenominator ==
    Returned =>
        /\ raised = "none"
        /\ \A g \in 1..Len(kpi_df) :
             LET x == kpi_df[g]
             IN  /\ x.total_kpis =
                      RAdd(RAdd(x.journal_articles, x.conference_papers),
                           RAdd(x.book_chapters, x.technology_demonstrators))
                 /\ ZeroDenominatorPolicy(x.journal_articles_cost,
                                          x.total_budget, x.journal_articles)
                 /\ ZeroDenominatorPolicy(x.conference_papers_cost,
                                          x.total_budget, x.conference_papers)
                 /\ ZeroDenominatorPolicy(x.book_chapters_cost,
                                          x.total_budget, x.book_chapters)
                 /\ ZeroDenominatorPolicy(x.technology_demonstrators_cost,
                                          x.total_budget, x.technology_demonstrators)
                 /\ ZeroDenominatorPolicy(x.cost_per_kpi,
                                          x.total_budget, x.total_kpis)

\* A rollup with budget and no output beside one whose budget is divided.
C3_Witness ==
    /\ Returned
    /\ \E g \in 1..Len(kpi_df) :
         /\ RGt(kpi_df[g].total_budget, Num(0))
         /\ kpi_df[g].total_kpis = Num(0)
         /\ kpi_df[g].cost_per_kpi = Num(0)
    /\ \E g \in 1..Len(kpi_df) :
         /\ kpi_df[g].total_budget = Num(MaxBudget)
         /\ kpi_df[g].conference_papers = Num(MaxCount)
         /\ kpi_df[g].book_chapters = Num(0)
         /\ kpi_df[g].conference_papers_cost = Rat(MaxBudget, MaxCount)
         /\ kpi_df[g].book_chapters_cost = Num(0)
         /\ kpi_df[g].cost_per_kpi = Rat(MaxBudget, MaxCount)

\* x >= y on floats.
RGe(x, y) == /\ ~IsNaN(x)
             /\ ~IsNaN(y)
             /\ x.n * y.d >= y.n * x.d

\* The inputs C4 is about: at least one record, nothing negative.
NonNegativeInput ==
    /\ Len(df) > 0
    /\ \A i \in 1..Len(df) :
         /\ RGe(df[i].total_budget, Num(0))
         /\ \A c \in 1..Len(kpi_columns) : RGe(df[i][kpi_columns[c]], Num(0))

\* C4: for a non-empty, non-negative input every performance_score lies in
\* [0, 100].
C4_ScoreBound ==
    (Scored /\ NonNegativeInput) =>
        \A k \in 1..Len(domain_metrics) :
            /\ RGe(domain_metrics[k].performance_score, Num(0))
            /\ RGe(Num(100), domain_metrics[k].performance_score)

\* 0.3 * budget_score + 0.3 * activity_score + 0.4 * output_score
WeightedSum(budget_score, activity_score, output_score) ==
    RAdd(RAdd(RMul(Rat(3, 10), budget_score), RMul(Rat(3, 10), activity_score)),
         RMul(Rat(4, 10), output_score))

\* C5: every domain's performance_score is 0.3 * budget_score +
\* 0.3 * activity_score + 0.4 * output_score of the component scores
\* reported with it, and the three weights add up to 1.
C5_WeightSum ==
    /\ RAdd(RAdd(budget_weight, activity_weight), output_weight) = Num(1)
    /\ Scored =>
         \A k \in 1..Len(domain_metrics) :
            LET m == domain_metrics[k]
            IN  m.performance_score =
                    WeightedSum(m.budget_score, m.activity_score, m.output_score)

\* Two domains sharing the budget, one active with all the output: its
\* score is 0.3 * 50 + 0.3 * 100 + 0.4 * 100 = 85.
C5_Witness ==
    /\ Scored
    /\ \E k \in 1..Len(domain_metrics) :
         /\ domain_metrics[k].budget_score = Num(50)
         /\ domain_metrics[k].activity_score = Num(100)
         /\ domain_metrics[k].output_score = Num(100)
         /\ domain_metrics[k].performance_score = Num(85)

\* C6: budget_score(d) is 0 for every domain when the total budget of the
\* input is 0, and 100 * total_budget(d) / total_budget(all) otherwise.
C6_BudgetScoreGuard ==
    Scored =>
        \A k \in 1..Len(domain_metrics) :
            LET all_budget == SumCol(df, "total_budget", AllRows(df))
                own_budget ==
                    SumCol(df, "total_budget",
                           {i \in 1..Len(df) : df[i].domain = domain_metrics[k].domain})
            IN  IF all_budget = Num(0)
                THEN domain_metrics[k].budget_score = Num(0)
                ELSE domain_metrics[k].budget_score =
                        RDiv(RMul(Num(100), own_budget), all_budget)

\* C7 as stated: a level outside {domain, programme, project} fails with an
\* InvalidArgument error and returns no rollups.
C7_UnknownLevelFails ==
    (Returned /\ level \notin Levels) =>
        /\ raised = "InvalidArgument"
        /\ kpi_df = <<>>

\* C7 amended: a level outside {domain, programme, project} raises nothing
\* and is handled as the project level: one rollup per input record, named
\* after the record's project and carrying the record's own figures.
C7_UnknownLevelIsProject ==
    (Returned /\ level \notin Levels) =>
        /\ raised = "none"
        /\ Len(kpi_df) = Len(df)
        /\ \A i \in 1..Len(df) :
             /\ kpi_df[i].name = df[i].project_name
             /\ kpi_df[i].total_budget = df[i].total_budget
             /\ kpi_df[i].journal_articles = df[i].journal_articles

C7_Witness ==
    /\ Returned
    /\ level = "portfolio"
    /\ Len(df) = 2
    /\ df[1].domain = "AI"
    /\ df[2].domain = "AI"
    /\ Len(kpi_df) = 2
    /\ kpi_df[1].name = "P1"
    /\ kpi_df[2].name = "P2"

\* The group key of a returned rollup at the domain or programme level.
RollupKey(x) == IF level = "domain" THEN <<x.name>> ELSE <<x.domain, x.name>>

RollupKeys == [g \in 1..Len(kpi_df) |-> RollupKey(kpi_df[g])]

\* C8 as stated: at the domain and programme levels the rollups come one per
\* distinct key in the order the keys are first met in the input.
C8_FirstEncounterOrder ==
    (Returned /\ level \in {"domain", "programme"}) =>
        RollupKeys = FirstSeenKeys(df, GroupBy(level), 1)

\* C8 amended: at the domain and programme levels the rollups come one per
\* distinct non-null key in ascending order of the key (domain, then
\* programme), whatever the order of the input.
C8_SortedOrder ==
    (Returned /\ level \in {"domain", "programme"}) =>
        /\ \A g \in 1..Len(kpi_df), h \in 1..Len(kpi_df) :
             g < h =>
                \/ Rank(kpi_df[g].name) < Rank(kpi_df[h].name) /\ level = "domain"
                \/ /\ level = "programme"
                   /\ \/ Rank(kpi_df[g].domain) < Rank(kpi_df[h].domain)
                      \/ /\ kpi_df[g].domain = kpi_df[h].domain
                         /\ Rank(kpi_df[g].name) < Rank(kpi_df[h].name)
        /\ { RollupKeys[g] : g \in 1..Len(kpi_df) } =
             { RollupKey([domain |-> df[i].domain,
                          name |-> IF level = "domain" THEN df[i].domain
                                   ELSE df[i].programme]) : i \in Keyed }

\* The first record's domain is alphabetically later, its rollup comes last.
C8_Witness ==
    /\ Returned
    /\ level = "domain"
    /\ Len(df) = 2
    /\ df[1].domain = "Energy"
    /\ df[2].domain = "AI"
    /\ Len(kpi_df) = 2
    /\ kpi_df[1].name = "AI"
    /\ kpi_df[2].name = "Energy"

\* C9: at the programme level two records with the same programme name and
\* different domains are in two separate rollups, both named after the
\* programme, and each rollup sums only the records of its own
\* (domain, programme) pair.
C9_CompositeKey ==
    (Returned /\ level = "programme") =>
        \A i \in 1..Len(df), j \in 1..Len(df) :
            ( /\ df[i].programme = df[j].programme
              /\ df[i].programme # None
              /\ df[i].domain # None
              /\ df[j].domain # None
              /\ df[i].domain # df[j].domain ) =>
            \E g \in 1..Len(kpi_df), h \in 1..Len(kpi_df) :
                LET own == { r \in 1..Len(df) :
                                /\ df[r].domain = df[i].domain
                                /\ df[r].programme = df[i].programme }
                IN  /\ g # h
                    /\ i \in groups[g]
                    /\ j \in groups[h]
                    /\ j \notin groups[g]
                    /\ kpi_df[g].name = df[i].programme
                    /\ kpi_df[h].name = df[i].programme
                    /\ kpi_df[g].domain = df[i].domain
                    /\ kpi_df[g].total_budget = SumCol(df, "total_budget", own)
                    /\ kpi_df[g].journal_articles =
                          SumCol(df, "journal_articles", own)

C9_Witness ==
    /\ Returned
    /\ level = "programme"
    /\ Len(df) = 2
    /\ df[1].domain = "Energy"
    /\ df[2].domain = "AI"
    /\ df[1].programme = "NLP"
    /\ df[2].programme = "NLP"
    /\ df[1].total_budget = Num(1)
    /\ df[2].total_budget = Num(MaxBudget)
    /\ Len(kpi_df) = 2
    /\ kpi_df[1].name = "NLP"
    /\ kpi_df[2].name = "NLP"
    /\ kpi_df[1].total_budget = Num(MaxBudget)
    /\ kpi_df[2].total_budget = Num(1)

ZeroFilled(frame) ==
    [i \in 1..Len(frame) |->
        [c \in DOMAIN frame[i] |->
            IF c \in {"total_budget"} \cup {kpi_columns[k] : k \in 1..Len(kpi_columns)}
            THEN SkipNa(frame[i][c])
            ELSE frame[i][c]]]

\* C11: at each of the three levels a record with a missing total_budget or
\* metric gives the rollups it would give with 0 in that field (sums,
\* total_kpis and every cost ratio), and nothing is raised.
C11_MissingIsZero ==
    (Returned /\ level \in Levels) =>
        /\ raised = "none"
        /\ kpi_df = process_kpi_data(ZeroFilled(df), level)

\* The rows of df that carry the domain of a reported entry.
RowsOf(domain) == { i \in 1..Len(df) : df[i].domain = domain }

\* C12: output_score(d) is 0 when the domain's own output is 0 and
\* 100 * output(d) / output(all) otherwise, the division then having a
\* non-zero output(all); the score is never NaN or infinite.
C12_OutputScore ==
    Scored =>
        \A k \in 1..Len(domain_metrics) :
            LET score == domain_metrics[k].output_score
                own == ResearchOutput(df, RowsOf(domain_metrics[k].domain))
                all == ResearchOutput(df, AllRows(df))
            IN  /\ score.d > 0
                /\ own = Num(0) => score = Num(0)
                /\ own # Num(0) =>
                     /\ all # Num(0)
                     /\ score.n * all.n * own.d = 100 * own.n * all.d * score.d

\* Two domains, neither with any output: both scored 0.
C12_Witness ==
    /\ Scored
    /\ Len(domain_metrics) = 2
    /\ ResearchOutput(df, AllRows(df)) = Num(0)
    /\ domain_metrics[1].output_score = Num(0)
    /\ domain_metrics[2].output_score = Num(0)

\* The first row of df that carries a domain value.
FirstRow(domain) == CHOOSE i \in RowsOf(domain) : \A j \in RowsOf(domain) : i <= j

\* The entries come one per distinct domain value of df, in the order the
\* values are first met.
OneEntryPerDomainInInputOrder ==
    /\ { domain_metrics[k].domain : k \in 1..Len(domain_metrics) } =
         { df[i].domain : i \in 1..Len(df) }
    /\ \A k \in 1..Len(domain_metrics), l \in 1..Len(domain_metrics) :
         k < l => FirstRow(domain_metrics[k].domain) < FirstRow(domain_metrics[l].domain)

\* activity_score = 100 * (rows of the domain with status 1) / (its rows)
ActivityIsActiveShare(m) ==
    /\ m.activity_score.d > 0
    /\ m.activity_score.n * Cardinality(RowsOf(m.domain)) =
         100 * Cardinality({i \in RowsOf(m.domain) : df[i].status = 1})
             * m.activity_score.d

\* C13 as stated: one entry per distinct domain of the input in the order
\* first met, each with activity_score = 100 * active / total of the
\* domain's records.
C13_ShapeAndActivity ==
    Scored =>
        /\ OneEntryPerDomainInInputOrder
        /\ \A k \in 1..Len(domain_metrics) : ActivityIsActiveShare(domain_metrics[k])

\* C13 amended: one entry per distinct domain value of the input, a null
\* one included, in the order first met; the entry of a non-null domain has
\* activity_score = 100 * active / total of the domain's records, and the
\* entry of a null domain has activity_score 0.
C13_Shape ==
    Scored =>
        /\ OneEntryPerDomainInInputOrder
        /\ \A k \in 1..Len(domain_metrics) :
             IF domain_metrics[k].domain = None
             THEN domain_metrics[k].activity_score = Num(0)
             ELSE ActivityIsActiveShare(domain_metrics[k])

\* The alphabetically later domain is first in the input and first in the
\* output.
C13_Witness ==
    /\ Scored
    /\ Len(df) = 2
    /\ df[1].domain = "Energy"
    /\ df[2].domain = "AI"
    /\ df[1].status = 0
    /\ df[2].status = 1
    /\ Len(domain_metrics) = 2
    /\ domain_metrics[1].domain = "Energy"
    /\ domain_metrics[1].activity_score = Num(0)
    /\ domain_metrics[2].domain = "AI"
    /\ domain_metrics[2].activity_score = Num(100)

\* C14: the entity reported as most efficient is a rollup whose cost_per_kpi
\* is the least among the rollups with cost_per_kpi > 0; a rollup with
\* cost_per_kpi = 0 is never reported, and when no rollup has
\* cost_per_kpi > 0 neither an entity nor a best cost is reported.
C14_MostEfficient ==
    Returned =>
        LET positive == { g \in 1..Len(kpi_df) : RGt(kpi_df[g].cost_per_kpi, Num(0)) }
        IN  /\ positive = {} => most_efficient = <<>>
            /\ positive # {} =>
                 /\ Len(most_efficient) = 1
                 /\ \E g \in positive :
                      /\ kpi_df[g].name = most_efficient[1].name
                      /\ kpi_df[g].cost_per_kpi = most_efficient[1].cost_per_kpi
                      /\ \A h \in positive :
                           ~RGt(kpi_df[g].cost_per_kpi, kpi_df[h].cost_per_kpi)

\* Two projects of one domain: the first has budget and no output (cost 0),
\* the second is the one reported.
C14_Witness ==
    /\ Returned
    /\ level = "project"
    /\ Len(kpi_df) = 2
    /\ RGt(kpi_df[1].total_budget, Num(0))
    /\ kpi_df[1].cost_per_kpi = Num(0)
    /\ RGt(kpi_df[2].cost_per_kpi, Num(0))
    /\ most_efficient = <<[name |-> "P2", cost_per_kpi |-> kpi_df[2].cost_per_kpi]>>

\* C15: whenever project_info is in the session state df is too, and no run
\* reads an unset st.session_state.df.
C15_SessionCache ==
    /\ "project_info" \in DOMAIN session_state => "df" \in DOMAIN session_state
    /\ raised # "AttributeError"

====
